---------------------------- MODULE Spec2Model ----------------------------
(***************************************************************************)
(* A model of ctf.py: the nmap -> Ollama -> markdown report workflow.      *)
(*                                                                         *)
(* Strings are modelled as sequences of fragments (TLA+ strings): a text   *)
(* is the concatenation of its fragments.  Fragments are chosen so that    *)
(* every substring or regular-expression match the code looks for lies     *)
(* inside one fragment, except the one cross-fragment match of             *)
(* (\d+)/tcp\s+open that is modelled explicitly ("8080/tcp", blanks,       *)
(* "open").  No fragment ends with a digit, so \d+ never spans fragments.  *)
(***************************************************************************)
EXTENDS Integers, Sequences, FiniteSets, TLC

(***************************************************************************)
(* Bounds of the model.                                                    *)
(***************************************************************************)
MaxTokens == 4          \* fragments of a scan text given to the validator
MaxScanTokens == 2      \* fragments of the scanner's stdout in a workflow run
MaxFlagLex == 5         \* fragments of the custom flag line (mode 5)

(***************************************************************************)
(* Python values.                                                          *)
(***************************************************************************)
None == [some |-> FALSE]
Some(v) == [some |-> TRUE, val |-> v]

\* All sequences over S of length at most n.
SeqUpTo(S, n) == UNION {[1..k -> S] : k \in 0..n}

\* Python's truthiness of an optional string given as fragments.
RECURSIVE CharLen(_)
CharLen(s) == IF s = <<>> THEN 0 ELSE Len(Head(s)) + CharLen(Tail(s))

Truthy(opt) == opt.some /\ CharLen(opt.val) > 0

\* str.strip(): leading and trailing whitespace is removed.
IsSpace(tok) == tok \in {" ", "\n"}

RECURSIVE LStrip(_)
LStrip(s) == IF s # <<>> /\ IsSpace(Head(s)) THEN LStrip(Tail(s)) ELSE s

RECURSIVE RStrip(_)
RStrip(s) ==
    IF s # <<>> /\ IsSpace(s[Len(s)]) THEN RStrip(SubSeq(s, 1, Len(s) - 1)) ELSE s

Strip(s) == RStrip(LStrip(s))

\* The text as one string.
RECURSIVE Join(_)
Join(s) == IF s = <<>> THEN "" ELSE Head(s) \o Join(Tail(s))

\* needle in text, for a needle that is a fragment or lies inside fragments
\* listed in holders.
Contains(text, holders) == \E i \in 1..Len(text) : text[i] \in holders

(***************************************************************************)
(* check_scan_results (src/ctf.py:22-39).                                  *)
(***************************************************************************)
MinOutputLen == 50

Pad == "Starting Nmap 7.94 ( https://nmap.org ) at 12:00h"

ScanTokens ==
    { Pad, " ",
      "80/tcp open http", "22/tcp   open  ssh",
      "8080/tcp", "open",
      "443/tcp closed https", "25/tcp FILTERED smtp",
      "53/udp open domain",
      "Host seems down", "0 hosts up" }

\* Fragments holding the literals the code searches for.
HostSeemsDownIn == {"Host seems down"}
ZeroHostsUpIn == {"0 hosts up"}
\* after str.lower()
FilteredInLower == {"25/tcp FILTERED smtp"}
ClosedInLower == {"443/tcp closed https"}

\* (\d+)/tcp\s+open inside one fragment: the captured groups, in order.
InnerPorts(tok) ==
    CASE tok = "80/tcp open http" -> <<"80">>
      [] tok = "22/tcp   open  ssh" -> <<"22">>
      [] OTHER -> <<>>

\* A fragment ending in (\d+)/tcp, and one starting with open.
TcpSuffix(tok) == IF tok = "8080/tcp" THEN <<"8080">> ELSE <<>>
OpenPrefix(tok) == tok = "open"

RECURSIVE SkipSpaces(_, _)
SkipSpaces(toks, i) ==
    IF i <= Len(toks) /\ IsSpace(toks[i]) THEN SkipSpaces(toks, i + 1) ELSE i

\* re.findall(r'(\d+)/tcp\s+open', text): non-overlapping matches, left to right.
RECURSIVE FindAllFrom(_, _)
FindAllFrom(toks, i) ==
    IF i > Len(toks) THEN <<>>
    ELSE IF InnerPorts(toks[i]) # <<>>
         THEN InnerPorts(toks[i]) \o FindAllFrom(toks, i + 1)
    ELSE LET j == SkipSpaces(toks, i + 1)
         IN  IF /\ TcpSuffix(toks[i]) # <<>>
                /\ j > i + 1
                /\ j <= Len(toks)
                /\ OpenPrefix(toks[j])
             THEN TcpSuffix(toks[i]) \o FindAllFrom(toks, j + 1)
             ELSE FindAllFrom(toks, i + 1)

FindAllFirstOnly(toks) ==
    LET all == FindAllFrom(toks, 1) IN IF all = <<>> THEN <<>> ELSE <<Head(all)>>

FindAll(toks) == FindAllFrom(toks, 1)

\* ', '.join(ports)
RECURSIVE JoinComma(_)
JoinComma(ports) ==
    IF ports = <<>> THEN <<>>
    ELSE IF Len(ports) = 1 THEN <<ports[1]>>
    ELSE <<ports[1], ", ">> \o JoinComma(Tail(ports))

MsgNoOutput == <<"Scan produced no output">>
MsgHostDown == <<"Host appears down (try -Pn flag)">>
MsgNoOpen == <<"No open ports", " found (all ports closed/filtered)">>
MsgNoPorts == <<"No ports detected in scan output">>
MsgFound(ports) ==
    <<"Found ", ToString(Len(ports)), " open port(s): ">> \o JoinComma(ports)

Verdict(ok, msg) == [ok |-> ok, msg |-> msg]

check_scan_results_ports_first(scan_output) ==
    IF ~Truthy(scan_output) \/ CharLen(Strip(scan_output.val)) < MinOutputLen
    THEN Verdict(FALSE, MsgNoOutput)
    ELSE LET text == scan_output.val
             open_ports == FindAll(text)
         IN  IF open_ports # <<>>
             THEN Verdict(TRUE, MsgFound(open_ports))
             ELSE IF Contains(text, HostSeemsDownIn) \/ Contains(text, ZeroHostsUpIn)
             THEN Verdict(FALSE, MsgHostDown)
             ELSE IF Contains(text, FilteredInLower) \/ Contains(text, ClosedInLower)
                  THEN Verdict(FALSE, MsgNoOpen)
                  ELSE Verdict(FALSE, MsgNoPorts)

check_scan_results_first_match(scan_output) ==
    IF ~Truthy(scan_output) \/ CharLen(Strip(scan_output.val)) < MinOutputLen
    THEN Verdict(FALSE, MsgNoOutput)
    ELSE LET text == scan_output.val
             open_ports == FindAllFirstOnly(text)
         IN  IF Contains(text, HostSeemsDownIn) \/ Contains(text, ZeroHostsUpIn)
             THEN Verdict(FALSE, MsgHostDown)
             ELSE IF open_ports = <<>>
             THEN IF Contains(text, FilteredInLower) \/ Contains(text, ClosedInLower)
                  THEN Verdict(FALSE, MsgNoOpen)
                  ELSE Verdict(FALSE, MsgNoPorts)
             ELSE Verdict(TRUE, MsgFound(open_ports))

check_scan_results(scan_output) ==
    IF ~Truthy(scan_output) \/ CharLen(Strip(scan_output.val)) < MinOutputLen
    THEN Verdict(FALSE, MsgNoOutput)
    ELSE LET text == scan_output.val
             open_ports == FindAll(text)
         IN  IF Contains(text, HostSeemsDownIn) \/ Contains(text, ZeroHostsUpIn)
             THEN Verdict(FALSE, MsgHostDown)
             ELSE IF open_ports = <<>>
             THEN IF Contains(text, FilteredInLower) \/ Contains(text, ClosedInLower)
                  THEN Verdict(FALSE, MsgNoOpen)
                  ELSE Verdict(FALSE, MsgNoPorts)
             ELSE Verdict(TRUE, MsgFound(open_ports))


(***************************************************************************)
(* Option building in main (src/ctf.py:158-189).                           *)
(***************************************************************************)
QuickOptions == <<"-Pn", "-sV", "-sC", "-T4">>
FullOptions == <<"-Pn", "-sV", "-sC", "-p-", "-T4">>
AggressiveOptions == <<"-Pn", "-A", "-T4">>
PortOptions(ports) == <<"-Pn", "-sV", "-sC", "-p" \o ports, "-T4">>
EmptyCustomOptions == <<"-Pn", "-sV", "-sC">>
DefaultPorts == <<"1-10000">>

\* x in list
InList(x, list) == \E i \in 1..Len(list) : list[i] = x

\* shlex.split(line) in POSIX mode over the fragments word, blank and single
\* quote: blanks separate tokens outside quotes, quotes are removed and join
\* with adjacent text, '' yields an empty token, an open quote at the end
\* raises ValueError("No closing quotation").
RECURSIVE ShlexFrom(_, _, _, _)
ShlexFrom(rest, cur, inQuote, acc) ==
    IF rest = <<>>
    THEN IF inQuote THEN [ok |-> FALSE, toks |-> <<>>]
         ELSE [ok |-> TRUE, toks |-> IF cur.some THEN Append(acc, cur.val) ELSE acc]
    ELSE LET c == Head(rest)
             sofar == IF cur.some THEN cur.val ELSE ""
         IN  IF c = "'"
             THEN ShlexFrom(Tail(rest), Some(sofar), ~inQuote, acc)
             ELSE IF IsSpace(c) /\ ~inQuote
             THEN ShlexFrom(Tail(rest), None, FALSE,
                            IF cur.some THEN Append(acc, cur.val) ELSE acc)
             ELSE ShlexFrom(Tail(rest), Some(sofar \o c), inQuote, acc)

shlex_split(line) == ShlexFrom(line, None, FALSE, <<>>)

\* list(dict.fromkeys(options)): the first occurrence of each element is kept.
RECURSIVE DedupFrom(_, _)
DedupFrom(rest, acc) ==
    IF rest = <<>> THEN acc
    ELSE DedupFrom(Tail(rest),
                   IF InList(Head(rest), acc) THEN acc ELSE Append(acc, Head(rest)))

RECURSIVE DedupLastFrom(_)
DedupLastFrom(rest) ==
    IF rest = <<>> THEN <<>>
    ELSE IF InList(Head(rest), Tail(rest)) THEN DedupLastFrom(Tail(rest))
    ELSE <<Head(rest)>> \o DedupLastFrom(Tail(rest))

RemoveDuplicatesKeepLast(options) == DedupLastFrom(options)

RemoveDuplicates(options) == DedupFrom(options, <<>>)

\* lines 177-183: the custom branch, given the stripped flag line's tokens.
CustomOptionsNoInsert(tokens) == tokens

CustomOptions(tokens) ==
    IF ~InList("-Pn", tokens) THEN <<"-Pn">> \o tokens ELSE tokens

\* line 158: str(input.strip() or "2")
ChoiceOf(raw) == IF CharLen(Strip(raw)) = 0 THEN "2" ELSE Join(Strip(raw))

\* The branches of lines 161-186 that need no further input.
DirectOptions(ch) ==
    CASE ch = "1" -> QuickOptions
      [] ch = "2" -> FullOptions
      [] ch = "3" -> AggressiveOptions
      [] OTHER -> FullOptions

(***************************************************************************)
(* run_nmap (src/ctf.py:41-72) and analyze_scan (src/ctf.py:74-111).       *)
(***************************************************************************)
\* The classes caught by "except Exception": KeyboardInterrupt is a
\* BaseException only.
ExceptionClasses ==
    {"TimeoutExpired", "FileNotFoundError", "ConnectionError", "KeyError",
     "JSONDecodeError", "ValueError", "EOFError", "AttributeError", "OSError"}

CaughtByBareExcept(cls) == TRUE

IsException(cls) == cls \in ExceptionClasses

Ret(results, err) == [raised |-> None, results |-> results, error |-> err]
Raise(cls) == [raised |-> Some(cls), results |-> None, error |-> None]

run_nmap_keeps_stdout(outcome) ==
    IF outcome.kind = "exit"
    THEN IF outcome.code # 0
         THEN Ret(Some(outcome.stdout), Some(<<"Scan failed">>))
         ELSE LET v == check_scan_results(Some(outcome.stdout))
              IN  IF v.ok THEN Ret(Some(outcome.stdout), None)
                  ELSE Ret(Some(outcome.stdout), Some(v.msg))
    ELSE IF outcome.cls = "TimeoutExpired" THEN Ret(None, Some(<<"Timeout">>))
    ELSE IF IsException(outcome.cls) THEN Ret(None, Some(outcome.msg))
    ELSE Raise(outcome.cls)

run_nmap(outcome) ==
    IF outcome.kind = "exit"
    THEN IF outcome.code # 0
         THEN Ret(None, Some(<<"Scan failed">>))
         ELSE LET v == check_scan_results(Some(outcome.stdout))
              IN  IF v.ok THEN Ret(Some(outcome.stdout), None)
                  ELSE Ret(Some(outcome.stdout), Some(v.msg))
    ELSE IF outcome.cls = "TimeoutExpired" THEN Ret(None, Some(<<"Timeout">>))
    ELSE IF IsException(outcome.cls) THEN Ret(None, Some(outcome.msg))
    ELSE Raise(outcome.cls)

\* analyze_scan's result: the returned value (None models a JSON null in the
\* 'response' field) or the exception that leaves the function.
Returned(value) == [raised |-> None, value |-> value]
Thrown(cls) == [raised |-> Some(cls), value |-> None]

analyze_scan(outcome) ==
    IF outcome.kind = "raise"
    THEN IF IsException(outcome.cls)
         THEN Returned(Some(<<"Error:", " ">> \o outcome.msg))
         ELSE Thrown(outcome.cls)
    ELSE IF outcome.status = 200
    THEN CASE outcome.body.kind = "text" -> Returned(Some(outcome.body.text))
           [] outcome.body.kind = "null" -> Returned(None)
           [] outcome.body.kind = "no_key" ->
                  Returned(Some(<<"Error:", " ", "'response'">>))
           [] OTHER -> Returned(Some(<<"Error:", " ", "Expecting value">>))
    ELSE Returned(Some(<<"Error:", " ", ToString(outcome.status)>>))

\* analysis.startswith("Error:")
StartsWithErrorNever(text) == FALSE

StartsWithError(text) == text # <<>> /\ Head(text) = "Error:"

(***************************************************************************)
(* The decisions of main after the scan (src/ctf.py:195-228).              *)
(***************************************************************************)
\* line 195: if not scan_results or error
ScanNotUsableIgnoringError(results, err) == ~Truthy(results)

ScanNotUsable(results, err) == ~Truthy(results) \/ Truthy(err)

\* str(error)
StrOf(err) == IF err.some THEN err.val ELSE <<"None">>

\* line 212: if scan_results and "No open ports" not in str(error)
OffersPromptNever(results, err) == FALSE

OffersPrompt(results, err) ==
    Truthy(results) /\ ~Contains(StrOf(err), {"No open ports"})

\* str.lower() on the fragments of an answer
LowerFrag(f) == CASE f = "Y" -> "y" [] f = "N" -> "n" [] OTHER -> f
Lower(s) == [i \in 1..Len(s) |-> LowerFrag(s[i])]

\* lines 213-214: proceed = input.strip().lower(); if proceed != 'y': return
ProceedOf(raw) == Lower(Strip(raw))
Confirmed(raw) == Join(ProceedOf(raw)) = "y"

(***************************************************************************)
(* save_results (src/ctf.py:113-125).                                      *)
(***************************************************************************)
\* replace(".", "_").replace("/", "_") on a fragment
SafeFrag(f) == CASE f = "10.10.10.5" -> "10_10_10_5" [] OTHER -> f
SafeTarget(t) == [i \in 1..Len(t) |-> SafeFrag(t[i])]
FileName(t) == <<"analysis_">> \o SafeTarget(t) \o <<".md">>

\* "~~~" stands for the three-backquote fence of the report.
ReportHead(t) == <<"# CTF Enumeration: ">> \o t \o <<"\n\n---\n\n">>
ReportBody(t, text, scanText) ==
    ReportHead(t) \o text \o <<"\n\n---\n\n## Raw Nmap Scan\n\n~~~text\n">>
        \o scanText \o <<"\n~~~\n">>

(***************************************************************************)
(* The __main__ guard (src/ctf.py:242-250).                                *)
(***************************************************************************)
ExitStatus(how, cls) ==
    IF how = "returned" THEN 0
    ELSE IF cls = "KeyboardInterrupt" THEN 1
    ELSE 1

(***************************************************************************)
(* State.                                                                  *)
(***************************************************************************)
VARIABLES
    pc,            \* where the process is
    target,        \* main's target
    choice_input,  \* what the user typed at "Choose [2]:"
    choice,        \* main's choice
    ports,         \* main's ports (mode 4)
    custom_flags,  \* main's custom_flags (mode 5)
    built,         \* options before line 189
    options,       \* options after line 189
    cmd,           \* the argument list given to subprocess.run
    scan,          \* what the scanner invocation did
    scan_results,  \* main's scan_results
    error,         \* main's error
    answer,        \* the raw answer to "Proceed with AI analysis anyway?"
    backend,       \* what the backend request did
    analysis,      \* main's analysis
    report,        \* the report file
    exc,           \* the exception leaving main
    exit_status,   \* the process's exit status
    trace,         \* the external steps and prompts so far
    vinput,        \* validator run: the argument of check_scan_results
    vresult        \* validator run: its result

vars == <<pc, target, choice_input, choice, ports, custom_flags, built, options, cmd, scan, scan_results, error,
          answer, backend, analysis, report, exc, exit_status, trace,
          vinput, vresult>>

(***************************************************************************)
(* Inputs.                                                                 *)
(***************************************************************************)
TargetInputs == {<<>>, <<" ">>, <<"10.10.10.5">>}

ChoiceInputs ==
    { <<>>, <<" ">>, <<"1">>, <<"2">>, <<"3">>, <<"4">>, <<"5">>, <<"9">>,
      <<" ", "2", " ">>, <<"2", "2">>, <<"two">> }

PortInputs == {<<>>, <<" ">>, <<"22,80">>, <<"-">>}

FlagLexemes == {"-Pn", "-sV", " ", "'"}
AllFlagInputs == SeqUpTo(FlagLexemes, MaxFlagLex)
RunFlagInputs ==
    { <<>>, <<"-sV">>, <<"-sV", " ", "-sV">>, <<"'", "-Pn", "'">>, <<"-sV", "'">> }

AnswerInputs == {<<>>, <<"y">>, <<"Y">>, <<" ", "y", " ">>, <<"n">>, <<"yes">>}

\* The fragments of the scanner's stdout in a workflow run.
RunScanTokens ==
    {Pad, " ", "80/tcp open http", "443/tcp closed https", "Host seems down"}
ScanTexts == SeqUpTo(RunScanTokens, MaxScanTokens)
ExcMessages == {<<>>, <<"[Errno 2] No such file or directory: 'nmap'">>}
ScanOutcomes ==
    [kind : {"exit"}, code : {0, 1}, stdout : ScanTexts]
        \cup [kind : {"raise"}, cls : {"TimeoutExpired"}, msg : {<<"timed out">>}]
        \cup [kind : {"raise"}, cls : {"FileNotFoundError"}, msg : ExcMessages]
        \cup [kind : {"raise"}, cls : {"KeyboardInterrupt"}, msg : {<<>>}]

ResponseTexts ==
    { <<>>, <<"## Open ports">>, <<"Error:", " cannot analyse">>,
      <<" ", "Error:">> }
ResponseBodies ==
    [kind : {"text"}, text : ResponseTexts]
        \cup {[kind |-> k, text |-> <<>>] : k \in {"null", "no_key", "bad_json"}}
BackendOutcomes ==
    [kind : {"response"}, status : {200}, body : ResponseBodies]
        \cup {[kind |-> "response", status |-> 500,
               body |-> [kind |-> "bad_json", text |-> <<>>]]}
        \cup [kind : {"raise"}, cls : {"ConnectionError", "KeyboardInterrupt"},
              msg : {<<"Connection refused">>}]

SaveOutcomes == {"ok", "open_fails", "write_fails"}

Prompts == {"start", "select_mode", "ports_prompt", "flags_prompt", "confirm"}

(***************************************************************************)
(* Initial state: the module is imported, main has not started.            *)
(***************************************************************************)
Fresh ==
    /\ target = <<>>
    /\ choice_input = None
    /\ choice = ""
    /\ ports = None
    /\ custom_flags = None
    /\ built = <<>>
    /\ options = <<>>
    /\ cmd = <<>>
    /\ scan = None
    /\ scan_results = None
    /\ error = None
    /\ answer = None
    /\ backend = None
    /\ analysis = None
    /\ report = None
    /\ exc = None
    /\ exit_status = None
    /\ trace = <<>>

Init ==
    /\ pc = "start"
    /\ Fresh
    /\ vinput = None
    /\ vresult = None

(***************************************************************************)
(* main, step by step.  A step runs from one blocking call to the next.    *)
(***************************************************************************)
validatorVars == <<vinput, vresult>>
scanVars == <<scan, scan_results, error>>
modeVars == <<choice_input, choice, ports, custom_flags>>
laterVars == <<answer, backend, analysis, report, exit_status>>

\* lines 141-148
GetTarget ==
    /\ pc = "start"
    /\ \E fromArgv \in BOOLEAN, raw \in TargetInputs :
          LET t == IF fromArgv THEN raw ELSE Strip(raw)
          IN  /\ target' = t
              /\ pc' = IF CharLen(t) = 0 THEN "returned" ELSE "select_mode"
    /\ UNCHANGED <<modeVars, built, options, cmd, scanVars, laterVars, exc, trace,
                   validatorVars>>

\* line 192 up to subprocess.run: the options are made unique and the scanner
\* is started.
Invoke(opts) ==
    /\ built' = opts
    /\ options' = RemoveDuplicates(opts)
    /\ cmd' = <<"nmap">> \o RemoveDuplicates(opts) \o <<Join(target)>>
    /\ trace' = Append(trace, "scan_start")
    /\ pc' = "scanning"

\* lines 158-167 and 184-186
SelectMode ==
    /\ pc = "select_mode"
    /\ \E raw \in ChoiceInputs :
          LET ch == ChoiceOf(raw)
          IN  /\ choice_input' = Some(raw)
              /\ choice' = ch
              /\ IF ch = "4"
                 THEN pc' = "ports_prompt" /\ UNCHANGED <<built, options, cmd, trace>>
                 ELSE IF ch = "5"
                 THEN pc' = "flags_prompt" /\ UNCHANGED <<built, options, cmd, trace>>
                 ELSE Invoke(DirectOptions(ch))
    /\ UNCHANGED <<target, ports, custom_flags, scanVars, laterVars, exc,
                   validatorVars>>

\* lines 168-172
EnterPorts ==
    /\ pc = "ports_prompt"
    /\ \E raw \in PortInputs :
          LET p == IF CharLen(Strip(raw)) = 0 THEN DefaultPorts ELSE Strip(raw)
          IN  /\ ports' = Some(p)
              /\ Invoke(PortOptions(Join(p)))
    /\ UNCHANGED <<target, choice_input, choice, custom_flags, scanVars,
                   laterVars, exc, validatorVars>>

\* lines 173-183
EnterFlags(inputs) ==
    /\ pc = "flags_prompt"
    /\ \E raw \in inputs :
          LET flags == Strip(raw)
              split == shlex_split(flags)
          IN  /\ custom_flags' = Some(flags)
              /\ IF CharLen(flags) = 0
                 THEN Invoke(EmptyCustomOptions) /\ UNCHANGED exc
                 ELSE IF split.ok
                 THEN Invoke(CustomOptions(split.toks)) /\ UNCHANGED exc
                 ELSE /\ exc' = Some("ValueError")
                      /\ pc' = "raised"
                      /\ UNCHANGED <<built, options, cmd, trace>>
    /\ UNCHANGED <<target, choice_input, choice, ports, scanVars, laterVars,
                   validatorVars>>

\* line 224: the backend request is sent.
StartAnalysis == "analyzing"

EventOn(newpc) ==
    CASE newpc = "analyzing" -> <<"analysis_start">>
      [] newpc = "confirm" -> <<"prompt">>
      [] newpc = "saving" -> <<"report">>
      [] newpc = "scanning" -> <<"scan_start">>
      [] OTHER -> <<>>

\* run_nmap returns or raises; lines 195-217 decide what follows.
AfterScan(r) ==
    IF r.raised.some THEN "raised"
    ELSE IF ScanNotUsable(r.results, r.error)
    THEN IF OffersPrompt(r.results, r.error) THEN "confirm" ELSE "returned"
    ELSE StartAnalysis

ScanReturns ==
    /\ pc = "scanning"
    /\ \E outcome \in ScanOutcomes :
          LET r == run_nmap(outcome)
              next == AfterScan(r)
          IN  /\ scan' = Some(outcome)
              /\ scan_results' = r.results
              /\ error' = r.error
              /\ exc' = r.raised
              /\ pc' = next
              /\ trace' = Append(trace, "scan_end") \o EventOn(next)
    /\ UNCHANGED <<target, modeVars, built, options, cmd, laterVars, validatorVars>>

\* lines 213-215
AfterAnswer(raw) == IF Confirmed(raw) THEN StartAnalysis ELSE "returned"

Confirm ==
    /\ pc = "confirm"
    /\ \E raw \in AnswerInputs :
          /\ answer' = Some(raw)
          /\ pc' = AfterAnswer(raw)
          /\ trace' = trace \o EventOn(AfterAnswer(raw))
    /\ UNCHANGED <<target, modeVars, built, options, cmd, scanVars, backend,
                   analysis, report, exc, exit_status, validatorVars>>

\* lines 224-239: analyze_scan returns or raises, the marker is tested and
\* save_results is called.
RetryOnError == "analyzing"

OnAnalysisError == "returned"

AfterAnalysis(a) ==
    IF a.raised.some THEN "raised"
    ELSE IF ~a.value.some THEN "raised"
    ELSE IF StartsWithError(a.value.val) THEN OnAnalysisError
    ELSE "saving"

AnalysisReturns ==
    /\ pc = "analyzing"
    /\ \E outcome \in BackendOutcomes :
          LET a == analyze_scan(outcome)
              next == AfterAnalysis(a)
          IN  /\ backend' = Some(outcome)
              /\ analysis' = a.value
              /\ exc' = IF a.raised.some THEN a.raised
                        ELSE IF ~a.value.some THEN Some("AttributeError")
                        ELSE None
              /\ pc' = next
              /\ trace' = Append(trace, "analysis_end") \o EventOn(next)
    /\ UNCHANGED <<target, modeVars, built, options, cmd, scanVars, answer,
                   report, exit_status, validatorVars>>

\* save_results, lines 113-125, and line 240
SaveReturns ==
    /\ pc = "saving"
    /\ \E outcome \in SaveOutcomes :
          LET name == FileName(target)
              full == ReportBody(target, analysis.val, scan_results.val)
          IN  CASE outcome = "ok" ->
                     /\ report' = Some([name |-> name, body |-> full])
                     /\ pc' = "returned"
                     /\ UNCHANGED exc
                [] outcome = "open_fails" ->
                     /\ UNCHANGED report
                     /\ pc' = "raised"
                     /\ exc' = Some("OSError")
                [] OTHER ->
                     /\ report' = Some([name |-> name, body |-> ReportHead(target)])
                     /\ pc' = "raised"
                     /\ exc' = Some("OSError")
    /\ UNCHANGED <<target, modeVars, built, options, cmd, scanVars, answer,
                   backend, analysis, exit_status, trace, validatorVars>>

\* Ctrl-C while main waits for input or writes the report.  (While the
\* scanner or the backend request is in flight it is one of their outcomes.)
Interrupt ==
    /\ pc \in Prompts \cup {"saving"}
    /\ exc' = Some("KeyboardInterrupt")
    /\ pc' = "raised"
    /\ UNCHANGED <<target, modeVars, built, options, cmd, scanVars, laterVars,
                   trace, validatorVars>>

\* End of input at a prompt: console.input raises EOFError.
InputEnds ==
    /\ pc \in Prompts
    /\ exc' = Some("EOFError")
    /\ pc' = "raised"
    /\ UNCHANGED <<target, modeVars, built, options, cmd, scanVars, laterVars,
                   trace, validatorVars>>

\* lines 242-250
Exit ==
    /\ pc \in {"returned", "raised"}
    /\ exit_status' = Some(ExitStatus(pc, IF exc.some THEN exc.val ELSE ""))
    /\ pc' = "exited"
    /\ UNCHANGED <<target, modeVars, built, options, cmd, scanVars, answer,
                   backend, analysis, report, exc, trace, validatorVars>>

Next ==
    \/ GetTarget
    \/ SelectMode
    \/ EnterPorts
    \/ EnterFlags(RunFlagInputs)
    \/ ScanReturns
    \/ Confirm
    \/ AnalysisReturns
    \/ SaveReturns
    \/ Interrupt
    \/ InputEnds
    \/ Exit

Spec == Init /\ [][Next]_vars

(***************************************************************************)
(* The option building alone, over every flag line of the bound.           *)
(***************************************************************************)
NextOptions ==
    \/ GetTarget
    \/ SelectMode
    \/ EnterPorts
    \/ EnterFlags(AllFlagInputs)

SpecOptions == Init /\ [][NextOptions]_vars

(***************************************************************************)
(* check_scan_results alone, over every text of the bound.                 *)
(***************************************************************************)
ValidatorInputs == {None} \cup {Some(t) : t \in SeqUpTo(ScanTokens, MaxTokens)}

InitValidator ==
    /\ pc = "validate"
    /\ Fresh
    /\ vinput \in ValidatorInputs
    /\ vresult = None

Validate ==
    /\ pc = "validate"
    /\ vresult' = Some(check_scan_results(vinput))
    /\ pc' = "validated"
    /\ UNCHANGED <<target, modeVars, built, options, cmd, scanVars, laterVars,
                   exc, trace, vinput>>

SpecValidator == InitValidator /\ [][Validate]_vars

(***************************************************************************)
(* Properties.                                                             *)
(***************************************************************************)
\* The first index of e in list, 0 when absent.
FirstIndex(list, e) ==
    IF InList(e, list) THEN CHOOSE i \in 1..Len(list) :
                                /\ list[i] = e
                                /\ \A k \in 1..(i - 1) : list[k] # e
    ELSE 0

Happened(e) == InList(e, trace)
Before(e, f) == Happened(e) /\ FirstIndex(trace, e) < FirstIndex(trace, f)

ScanExited == scan.some /\ scan.val.kind = "exit"
ScanRaised(cls) == scan.some /\ scan.val.kind = "raise" /\ scan.val.cls = cls
BackendRaised(cls) ==
    backend.some /\ backend.val.kind = "raise" /\ backend.val.cls = cls
\* The answer after trimming blanks and lower-casing, as one string.
AnswerIs(a) ==
    answer.some /\ Join(Strip([i \in 1..Len(answer.val) |->
                                  IF answer.val[i] = "Y" THEN "y"
                                  ELSE IF answer.val[i] = "N" THEN "n"
                                  ELSE answer.val[i]])) = a
ReportWritten == report.some \/ Happened("report")

\* C1: the report file is written only after analyze_scan has returned a text
\* that does not begin with "Error:"; a run with an empty target, a scanner
\* failure, a declined prompt, a non-200 backend status or a backend exception
\* leaves no report file.
C1_ReportOnlyAfterGoodAnalysis ==
    ReportWritten =>
        /\ Before("analysis_end", "report")
        /\ analysis.some
        /\ (analysis.val = <<>> \/ analysis.val[1] # "Error:")
        /\ CharLen(target) > 0
        /\ ScanExited /\ scan.val.code = 0 /\ CharLen(scan.val.stdout) > 0
        /\ (answer.some => AnswerIs("y"))
        /\ backend.some /\ backend.val.kind = "response" /\ backend.val.status = 200

C1_Witness ==
    /\ pc = "exited"
    /\ report.some
    /\ report.val.body = ReportBody(target, analysis.val, scan_results.val)

\* C2 as stated: analyze_scan is called only with non-empty scan text and either
\* no error reason from run_nmap or the answer exactly 'y' to the prompt.
C2_AnalysisOnlyIfExactY ==
    Happened("analysis_start") =>
        /\ scan_results.some /\ CharLen(scan_results.val) > 0
        /\ (~error.some \/ (answer.some /\ answer.val = <<"y">>))

\* C2 as amended: analyze_scan is called only with non-empty scan text and either
\* no error reason from run_nmap or an answer to the prompt that equals 'y' once
\* surrounding blanks are trimmed and letters are lower-cased.
C2_AnalysisOnlyIfConfirmed ==
    Happened("analysis_start") =>
        /\ scan_results.some /\ CharLen(scan_results.val) > 0
        /\ (~error.some \/ (Before("prompt", "analysis_start") /\ AnswerIs("y")))

C2_Witness ==
    /\ Happened("analysis_start")
    /\ error = Some(MsgHostDown)
    /\ answer = Some(<<"Y">>)

\* The scanner exited with code 0 and non-empty text that the validator
\* classified as failed.
InconclusiveScan ==
    /\ ScanExited /\ scan.val.code = 0 /\ CharLen(scan.val.stdout) > 0
    /\ error.some

\* C3 as stated: after every exit-0 scan with non-empty text classified as failed,
\* the "no open ports" reason included, the prompt is offered before the run ends
\* or the analysis starts.
C3_PromptAfterEveryInconclusive ==
    InconclusiveScan =>
        /\ Happened("prompt")
        /\ (Happened("analysis_start") => Before("prompt", "analysis_start"))

\* C3 as amended: after an exit-0 scan with non-empty text classified as failed,
\* the prompt is offered before the run ends or the analysis starts, unless the
\* reason is "No open ports found (all ports closed/filtered)": then no prompt is
\* offered and the run ends without analysis.
C3_PromptUnlessNoOpenPorts ==
    InconclusiveScan =>
        IF error.val = <<"No open ports", " found (all ports closed/filtered)">>
        THEN ~Happened("prompt") /\ ~Happened("analysis_start")
             /\ pc \in {"returned", "exited"}
        ELSE /\ Happened("prompt")
             /\ (Happened("analysis_start") => Before("prompt", "analysis_start"))

C3_Witness ==
    /\ InconclusiveScan
    /\ error = Some(MsgHostDown)
    /\ Happened("prompt")
    /\ pc = "confirm"

\* C4: a scanner timeout, non-zero exit or other exception makes run_nmap return
\* no text with the reason "Timeout", "Scan failed" or the exception's message;
\* the run then ends with no prompt, no analysis request and no report, and no
\* exception leaves run_nmap.
ScanFailedHard ==
    \/ ScanExited /\ scan.val.code # 0
    \/ ScanRaised("TimeoutExpired")
    \/ ScanRaised("FileNotFoundError")

C4_HardFailureEndsRun ==
    ScanFailedHard =>
        /\ scan_results = None
        /\ error = Some(IF scan.val.kind = "exit" THEN <<"Scan failed">>
                        ELSE IF scan.val.cls = "TimeoutExpired" THEN <<"Timeout">>
                        ELSE scan.val.msg)
        /\ ~exc.some
        /\ pc \in {"returned", "exited"}
        /\ ~Happened("prompt") /\ ~Happened("analysis_start") /\ ~ReportWritten
        /\ ~answer.some /\ ~backend.some

C4_Witness ==
    /\ ScanRaised("FileNotFoundError")
    /\ pc = "exited"
    /\ error = Some(<<"[Errno 2] No such file or directory: 'nmap'">>)

\* The text holds "Host seems down" or "0 hosts up".
HasHostDown(text) ==
    \E i \in 1..Len(text) : text[i] \in {"Host seems down", "0 hosts up"}

TrimmedLen(text) == CharLen(Strip(text))

\* The captures of (\d+)/tcp\s+open in the text, by where each match starts.
MatchStartsAt(text, i) ==
    \/ InnerPorts(text[i]) # <<>>
    \/ /\ TcpSuffix(text[i]) # <<>>
       /\ \E j \in (i + 2)..Len(text) :
             /\ text[j] = "open"
             /\ \A k \in (i + 1)..(j - 1) : text[k] = " "
PortAt(text, i) ==
    IF InnerPorts(text[i]) # <<>> THEN InnerPorts(text[i])[1] ELSE TcpSuffix(text[i])[1]
MatchedPorts(text) ==
    LET idx == SelectSeq([i \in 1..Len(text) |-> i], LAMBDA i : MatchStartsAt(text, i))
    IN  [k \in 1..Len(idx) |-> PortAt(text, idx[k])]

\* C5 as stated: every scan output holding a host-down indicator is classified
\* failed with the "host appears down" reason, whatever port patterns it holds.
C5_HostDownAlways ==
    (vresult.some /\ vinput.some /\ HasHostDown(vinput.val)) =>
        vresult.val = [ok |-> FALSE, msg |-> <<"Host appears down (try -Pn flag)">>]

\* C5 as amended: every scan output of at least 50 characters after trimming that
\* holds a host-down indicator is classified failed with the "host appears down"
\* reason, whatever port patterns it holds; a shorter one is "no output".
C5_HostDownWhenLongEnough ==
    (vresult.some /\ vinput.some /\ HasHostDown(vinput.val)) =>
        vresult.val =
            IF TrimmedLen(vinput.val) >= 50
            THEN [ok |-> FALSE, msg |-> <<"Host appears down (try -Pn flag)">>]
            ELSE [ok |-> FALSE, msg |-> <<"Scan produced no output">>]

C5_Witness ==
    /\ vresult.some /\ vinput.some
    /\ HasHostDown(vinput.val)
    /\ MatchedPorts(vinput.val) # <<>>
    /\ vresult.val.msg = MsgHostDown

\* C6 as stated: every scan output holding at least one "N/tcp ... open" pattern is
\* classified succeeded, with the count of the matches and the matched ports in
\* order of appearance.
C6_OpenPortsAlways ==
    (vresult.some /\ vinput.some /\ MatchedPorts(vinput.val) # <<>>) =>
        /\ vresult.val.ok
        /\ vresult.val.msg =
               <<"Found ", ToString(Len(MatchedPorts(vinput.val))), " open port(s): ">>
                   \o JoinComma(MatchedPorts(vinput.val))

\* C6 as amended: every scan output of at least 50 characters after trimming that
\* holds no host-down indicator and at least one "N/tcp ... open" pattern is
\* classified succeeded, with the count of the matches and the matched ports in
\* order of appearance.
C6_OpenPortsWhenLongAndUp ==
    (/\ vresult.some /\ vinput.some
     /\ MatchedPorts(vinput.val) # <<>>
     /\ TrimmedLen(vinput.val) >= 50
     /\ ~HasHostDown(vinput.val)) =>
        /\ vresult.val.ok
        /\ vresult.val.msg =
               <<"Found ", ToString(Len(MatchedPorts(vinput.val))), " open port(s): ">>
                   \o JoinComma(MatchedPorts(vinput.val))

C6_Witness ==
    /\ vinput = Some(<<Pad, " ", "80/tcp open http", "22/tcp   open  ssh">>)
    /\ vresult = Some([ok |-> TRUE,
                       msg |-> <<"Found ", "2", " open port(s): ", "80", ", ", "22">>])

\* The options handed to the scanner: cmd without the program and the target.
PassedOptions == SubSeq(cmd, 2, Len(cmd) - 1)
ScannerStarted == cmd # <<>>
ModeInput == Join(Strip(choice_input.val))

\* C7: whatever the mode input, port specification or custom flag line that
\* tokenizes, the options handed to the scanner contain "-Pn".
C7_SkipDiscoveryAlwaysPassed ==
    ScannerStarted =>
        /\ cmd[1] = "nmap" /\ cmd[Len(cmd)] = Join(target)
        /\ PassedOptions = options
        /\ \E i \in 1..Len(PassedOptions) : PassedOptions[i] = "-Pn"

C7_Witness ==
    /\ ScannerStarted
    /\ ModeInput = "5"
    /\ custom_flags = Some(<<"-sV", " ", "-sV">>)
    /\ PassedOptions = <<"-Pn", "-sV">>

\* C8: for the mode input "2", an empty one or one outside "1".."5" the options
\* handed to the scanner are exactly -Pn -sV -sC -p- -T4; for every mode they hold
\* no element twice and keep the elements in order of first occurrence.
C8_FullScanAndNoDuplicates ==
    ScannerStarted =>
        /\ (ModeInput \notin {"1", "3", "4", "5"} =>
                PassedOptions = <<"-Pn", "-sV", "-sC", "-p-", "-T4">>)
        /\ \A i, j \in 1..Len(PassedOptions) :
              i < j => /\ PassedOptions[i] # PassedOptions[j]
                       /\ FirstIndex(built, PassedOptions[i]) > 0
                       /\ FirstIndex(built, PassedOptions[i])
                              < FirstIndex(built, PassedOptions[j])
        /\ {PassedOptions[i] : i \in 1..Len(PassedOptions)}
               = {built[i] : i \in 1..Len(built)}

C8_Witness ==
    /\ ScannerStarted
    /\ ModeInput = "5"
    /\ built = <<"-sV", "-Pn", "-sV">>
    /\ PassedOptions = <<"-sV", "-Pn">>

\* C9: an interruption at any point of the workflow and any error that leaves
\* main end the process with exit status 1; every other run ends with status 0.
C9_ExitStatus ==
    /\ (ScanRaised("KeyboardInterrupt") \/ BackendRaised("KeyboardInterrupt"))
           => exc = Some("KeyboardInterrupt")
    /\ exc.some => pc \in {"raised", "exited"}
    /\ pc = "raised" => exc.some
    /\ pc = "exited" => exit_status = Some(IF exc.some THEN 1 ELSE 0)

C9_Witness ==
    /\ pc = "exited"
    /\ ScanRaised("KeyboardInterrupt")
    /\ exit_status = Some(1)

\* C10: the external steps of a run are a prefix of: scanner started, scanner
\* ended, analysis requested, analysis answered, report written; each at most
\* once, none while another is in flight, none retried.
ExternalSteps == SelectSeq(trace, LAMBDA e : e # "prompt")
StepOrder == <<"scan_start", "scan_end", "analysis_start", "analysis_end", "report">>

C10_StepsInOrderOnce ==
    /\ Len(ExternalSteps) <= Len(StepOrder)
    /\ ExternalSteps = SubSeq(StepOrder, 1, Len(ExternalSteps))
    /\ pc = "scanning" <=> (Happened("scan_start") /\ ~Happened("scan_end"))
    /\ pc = "analyzing" <=> (Happened("analysis_start") /\ ~Happened("analysis_end"))

C10_Witness ==
    /\ ExternalSteps = StepOrder
    /\ Happened("prompt")
    /\ pc = "exited"

=============================================================================
